---- MODULE Spec2Model ----
(***************************************************************************)
(* Post-call analytics batch pipeline.                                     *)
(*                                                                         *)
(*   transcribe_start_jobs.py   : start_analytics_jobs (job submission)    *)
(*   transcribe_jobs_results.py : main_analytics_function, i.e.            *)
(*       analytics_job_response_output -> transcript_call_public_fnt ->    *)
(*       summary_call_public_fnt -> apply(parse_call_analytics_output)     *)
(*                                                                         *)
(* Python values are modelled as follows.                                  *)
(*   dict            a function whose domain is the set of its keys        *)
(*   list            a sequence                                            *)
(*   str             a string                                              *)
(*   a table cell    <<>> for None/NaN, <<v>> for the value v              *)
(*   DataFrame       [cols |-> column names, rows |-> sequence of          *)
(*                    [idx |-> index label, cells |-> column -> cell]]     *)
(* An expression that raises inside a try block is modelled by the value   *)
(* Raised (<<>>) of a lookup chain, the except branch by the test on it.   *)
(***************************************************************************)
EXTENDS Integers, Sequences, FiniteSets, TLC

\* ------------------------------------------------------------------ bounds
\* Largest job table of the retrieval pipeline.
MaxJobs == 2
\* Largest number of utterance entries of a generated Transcript section.
MaxUtt == 3
\* Largest job table handed to start_analytics_jobs.
MaxStartJobs == 5

\* ------------------------------------------------------- program constants
\* @retry(tries=5) on analytics_job_response_output
RetrieveTries == 5
\* @retry(tries=5) on main_analytics_function
MainTries == 5
\* @retry(tries=5) on start_analytics_jobs
StartTries == 5
\* the divisor of the millisecond fields
MillisPerSec == 1000

\* ------------------------------------------------------------ Python values
Null == <<>>
Some(v) == <<v>>
IsNull(c) == Len(c) = 0

\* The outcome of a lookup chain inside a try block: <<>> once a step raised.
Raised == <<>>
\* d[k] on a dict or list value carried by a chain; KeyError, IndexError and
\* TypeError (None[k]) all end the chain.
Lookup(chain, k) ==
    IF Len(chain) = 0 THEN Raised
    ELSE IF k \in DOMAIN chain[1] THEN Some(chain[1][k]) ELSE Raised

\* lst[0]: the first element of a list (TLA+ sequences start at 1).
First(chain) ==
    IF Len(chain) = 0 THEN Raised
    ELSE IF Len(chain[1]) >= 1 THEN Some(chain[1][1]) ELSE Raised

\* ms / 1000: Python's true division, kept exact as a fraction.
Seconds(ms) == [num |-> ms, den |-> MillisPerSec]

RECURSIVE JoinWith(_, _)
\* sep.join(items)
JoinWith(sep, items) ==
    IF Len(items) = 0 THEN ""
    ELSE IF Len(items) = 1 THEN items[1]
    ELSE items[1] \o sep \o JoinWith(sep, Tail(items))

\* ---------------------------------------------------------------- DataFrame
EmptyFrame == [cols |-> {}, rows |-> <<>>]

\* The cells of a row widened to the columns cols, NaN where it has none.
Widen(cells, cols) ==
    [c \in cols |-> IF c \in DOMAIN cells THEN cells[c] ELSE Null]

\* pd.concat([a, b]) along axis 0: the union of the columns, rows of a then b.
ConcatRows(a, b) ==
    LET cols == a.cols \cup b.cols
        wide(r) == [idx |-> r.idx, cells |-> Widen(r.cells, cols)]
    IN [cols |-> cols,
        rows |-> [i \in 1..Len(a.rows) |-> wide(a.rows[i])]
                 \o [i \in 1..Len(b.rows) |-> wide(b.rows[i])]]

\* df.reset_index(drop=True): labels 0..n-1
ResetIndex(df) ==
    [cols |-> df.cols,
     rows |-> [i \in 1..Len(df.rows) |-> [idx |-> i - 1, cells |-> df.rows[i].cells]]]

RECURSIVE SelectSeq2(_, _)
\* the rows of a sequence whose index label is lab, in order
SelectSeq2(rows, lab) ==
    IF Len(rows) = 0 THEN <<>>
    ELSE (IF Head(rows).idx = lab THEN <<Head(rows)>> ELSE <<>>)
         \o SelectSeq2(Tail(rows), lab)

\* df[col].isnull().sum()
NullCount(df, col) ==
    Cardinality({i \in 1..Len(df.rows) : IsNull(df.rows[i].cells[col])})

\* row[col] = cell on every row of a frame
SetColumn(df, col, cell) ==
    [cols |-> df.cols \cup {col},
     rows |-> [i \in 1..Len(df.rows) |->
                 [idx |-> df.rows[i].idx,
                  cells |-> [c \in (DOMAIN df.rows[i].cells) \cup {col} |->
                               IF c = col THEN cell ELSE df.rows[i].cells[c]]]]]

\* ---------------------------------------------------------------- documents
key_cols == <<"IssuesDetected", "OutcomesDetected", "ActionItemsDetected">>
speakers == <<"Speaker 1", "Speaker 2">>

Range(s) == {s[i] : i \in DOMAIN s}

\* The text of the utterance at position i (1-based) of a generated transcript.
Words == <<"hi", "hello", "bye", "thanks", "ok">>
ContentAt(i) == Words[((i - 1) % Len(Words)) + 1]

\* What the service stores under a tag key (the code reads only the key).
TagValue == <<[CharacterOffsets |-> [Begin |-> 0, End |-> 7]]>>

\* An utterance entry: a dict with an optional Content and any of the tag keys.
Entry(i, hasContent, tags) ==
    [k \in (IF hasContent THEN {"Content"} ELSE {}) \cup tags |->
        IF k = "Content" THEN ContentAt(i) ELSE TagValue]

\* A Transcript element that is not a dict (a bare string): .get and .keys
\* raise AttributeError on it.
BadEntry == [py_str |-> "oops"]
IsDict(e) == e # BadEntry

\* The shape of an utterance entry: whether it has a Content, and its tags.
EntryShapes == [content : BOOLEAN, tags : SUBSET Range(key_cols)]

\* The Transcript section whose i-th entry has the shape shapes[i].
TranscriptOf(shapes) ==
    [i \in 1..Len(shapes) |-> Entry(i, shapes[i].content, shapes[i].tags)]

\* The 12 fields parse_call_analytics_output sets, in its order.
CharFields ==
    <<"overall_sentiment_customer", "overall_sentiment_agent",
      "sentiment_scores_agent_per_quarter", "sentiment_scores_customer_per_quarter",
      "non_talk_time_sec", "interupted_time_agent_sec", "interupted_time_customer_sec",
      "talk_speed_words_per_min_agent", "talk_speed_words_per_min_customer",
      "talk_time_agent_sec", "talk_time_customer_sec", "matched_categories">>

\* A dict keyed by participant role: AGENT when a, CUSTOMER when c.
RoleDict(a, c, va, vc) ==
    [r \in (IF a THEN {"AGENT"} ELSE {}) \cup (IF c THEN {"CUSTOMER"} ELSE {}) |->
        IF r = "AGENT" THEN va ELSE vc]

GoodScoresAgent == <<[Score |-> 1], [Score |-> 3]>>
GoodScoresCustomer == <<[Score |-> 2], [Score |-> 5]>>
ScoreLists(good) == {<<>>, good, <<good[1], [BeginOffsetMillis |-> 0]>>}

GoodInterruptionsAgent == <<[DurationMillis |-> 1200], [DurationMillis |-> 800]>>
GoodInterruptionsCustomer == <<[DurationMillis |-> 300], [DurationMillis |-> 40]>>
InterruptionLists(good) ==
    {<<>>, good, <<[BeginOffsetMillis |-> 10], good[2]>>}

\* A document in which exactly the leaves of the fields in P are present; the
\* four role-keyed lists are given.
CharDocWith(P, sa, sc, ia, ic) ==
    [ConversationCharacteristics |->
       [Sentiment |->
          [OverallSentiment |->
             RoleDict("overall_sentiment_agent" \in P,
                      "overall_sentiment_customer" \in P, "NEUTRAL", "POSITIVE"),
           SentimentByPeriod |->
             [QUARTER |->
                RoleDict("sentiment_scores_agent_per_quarter" \in P,
                         "sentiment_scores_customer_per_quarter" \in P, sa, sc)]],
        NonTalkTime |->
          [k \in (IF "non_talk_time_sec" \in P THEN {"TotalTimeMillis"} ELSE {}) |-> 4500],
        Interruptions |->
          [InterruptionsByInterrupter |->
             RoleDict("interupted_time_agent_sec" \in P,
                      "interupted_time_customer_sec" \in P, ia, ic)],
        TalkSpeed |->
          [DetailsByParticipant |->
             RoleDict("talk_speed_words_per_min_agent" \in P,
                      "talk_speed_words_per_min_customer" \in P,
                      [AverageWordsPerMinute |-> 150],
                      [AverageWordsPerMinute |-> 120])],
        TalkTime |->
          [DetailsByParticipant |->
             RoleDict("talk_time_agent_sec" \in P, "talk_time_customer_sec" \in P,
                      [TotalTimeMillis |-> 61500], [TotalTimeMillis |-> 30250])]],
     Categories |->
       [k \in (IF "matched_categories" \in P THEN {"MatchedCategories"} ELSE {}) |->
          <<"billing", "refund">>]]

CharDoc(P) ==
    CharDocWith(P, GoodScoresAgent, GoodScoresCustomer,
                GoodInterruptionsAgent, GoodInterruptionsCustomer)

FullDoc == CharDoc(Range(CharFields))

\* d without the keys K
DropKeys(d, K) == [k \in (DOMAIN d) \ K |-> d[k]]

CCSections == {"Sentiment", "NonTalkTime", "Interruptions", "TalkSpeed", "TalkTime"}

\* Every subset of leaves present; every subset of sections present; every
\* shape of the role-keyed lists.
CharDocs ==
    {CharDoc(P) : P \in SUBSET Range(CharFields)}
    \cup {DropKeys([ConversationCharacteristics |->
                      DropKeys(FullDoc.ConversationCharacteristics, D),
                    Categories |-> FullDoc.Categories], top) :
            D \in SUBSET CCSections,
            top \in SUBSET {"ConversationCharacteristics", "Categories"}}
    \cup {CharDocWith(Range(CharFields), sa, sc, ia, ic) :
            sa \in ScoreLists(GoodScoresAgent), sc \in ScoreLists(GoodScoresCustomer),
            ia \in InterruptionLists(GoodInterruptionsAgent),
            ic \in InterruptionLists(GoodInterruptionsCustomer)}

\* d1 extended by the keys of d2
Merge(d1, d2) ==
    [k \in (DOMAIN d1) \cup (DOMAIN d2) |-> IF k \in DOMAIN d1 THEN d1[k] ELSE d2[k]]

\* The documents of the jobs of a batch: one of each shape of section.
SampleTranscripts ==
    {<<>>,
     <<Entry(1, TRUE, {}), Entry(2, TRUE, {})>>,
     <<Entry(1, TRUE, {"IssuesDetected"}), Entry(2, TRUE, {"IssuesDetected"})>>,
     <<Entry(1, TRUE, {"IssuesDetected", "OutcomesDetected"}),
       Entry(2, TRUE, {"IssuesDetected"})>>,
     <<Entry(1, FALSE, {"ActionItemsDetected"}), Entry(2, TRUE, {"OutcomesDetected"})>>,
     <<Entry(1, TRUE, {}), BadEntry>>}
SampleDocs ==
    {<<>>, FullDoc,
     [ConversationCharacteristics |->
        [Sentiment |-> [OverallSentiment |-> RoleDict(TRUE, TRUE, "NEUTRAL", "POSITIVE")]]]}
    \cup {[Transcript |-> t] : t \in SampleTranscripts}
    \cup {Merge([Transcript |-> <<Entry(1, TRUE, {"OutcomesDetected"}), Entry(2, TRUE, {})>>],
                FullDoc)}

\* What fetching a job's document yields: the fetch or the JSON parsing failed,
\* the body was the JSON null, or the body was a document.
FetchFailed == [ok |-> FALSE, body |-> Null]
Fetched(doc) == [ok |-> TRUE, body |-> Some(doc)]
FetchedNull == [ok |-> TRUE, body |-> Null]

JobName(i) == "job" \o ToString(i)
JobUrl(i) == "s3://calls/" \o ToString(i) \o ".wav"

\* pd.read_csv("recordings.csv") with n data lines: a RangeIndex 0..n-1.
ReadCsv(n) ==
    [cols |-> {"job_name", "job_url"},
     rows |-> [i \in 1..n |->
                 [idx |-> i - 1,
                  cells |-> [job_name |-> Some(JobName(i - 1)),
                             job_url |-> Some(JobUrl(i - 1))]]]]

VARIABLES
    df_jobs,      \* the input table (recordings.csv as read by pd.read_csv)
    service,      \* job name -> what fetching that job's document yields
    pc,           \* the position of the running script
    main_tries,   \* attempts left to main_analytics_function's retry
    inner_tries,  \* attempts left to analytics_job_response_output's retry
    attempts,     \* executions of analytics_job_response_output's body so far
    cur,          \* the row DataFrame.apply hands to job_func next (1-based)
    acc,          \* the rows job_func has returned in this apply
    fetched,      \* the job names fetched, in call order, over the whole run
    counts,       \* the counts the passes logged
    df_responses, \* the result of analytics_job_response_output
    df_transcripts, \* the result of transcript_call_public_fnt
    df_summaries, \* the result of summary_call_public_fnt
    final_df,     \* the result of main_analytics_function
    start_tries,  \* attempts left to start_analytics_jobs' retry
    calls,        \* the start_call_analytics_job calls made, in order
    df_started    \* the result of start_analytics_jobs

vars == <<df_jobs, service, pc, main_tries, inner_tries, attempts, cur,
          acc, fetched, counts, df_responses, df_transcripts, df_summaries,
          final_df, start_tries, calls, df_started>>
\* (the except branch storing an empty document instead of None)
job_func_empty_doc(row, outcome) ==
    [idx |-> row.idx,
     cells |-> [c \in (DOMAIN row.cells) \cup {"job_response_output"} |->
                  IF c = "job_response_output"
                  THEN (IF outcome.ok THEN outcome.body ELSE Some(<<>>))
                  ELSE row.cells[c]]]

\* ------------------------------------------- analytics_job_response_output
\* job_func: the row with its fetched document, None when anything raised.
job_func(row, outcome) ==
    [idx |-> row.idx,
     cells |-> [c \in (DOMAIN row.cells) \cup {"job_response_output"} |->
                  IF c = "job_response_output"
                  THEN (IF outcome.ok THEN outcome.body ELSE Null)
                  ELSE row.cells[c]]]

\* DataFrame.apply(f, axis=1) once f has returned rows for every row of df: a
\* frame without rows is returned as a copy, with the columns it had.
ApplyResult(df, rows) ==
    IF Len(df.rows) = 0 THEN df
    ELSE [cols |-> UNION {DOMAIN rows[i].cells : i \in 1..Len(rows)},
          rows |-> [i \in 1..Len(rows) |->
                      [idx |-> rows[i].idx,
                       cells |-> Widen(rows[i].cells,
                                       UNION {DOMAIN rows[j].cells : j \in 1..Len(rows)})]]]

\* A table of up to MaxJobs jobs whose documents are one of each shape of
\* section; or one job whose document holds a Transcript of up to MaxUtt
\* utterances of every shape; or one job whose document holds any of the
\* characteristics sections.
Init ==
    /\ \/ \E n \in 0..MaxJobs :
            /\ df_jobs = ReadCsv(n)
            /\ service \in [{JobName(i) : i \in 0..(n - 1)} ->
                              {FetchFailed, FetchedNull} \cup {Fetched(d) : d \in SampleDocs}]
       \/ /\ df_jobs = ReadCsv(1)
          /\ \E n \in 0..MaxUtt : \E shapes \in [1..n -> EntryShapes] :
               service = [j \in {JobName(0)} |->
                            Fetched([Transcript |-> TranscriptOf(shapes)])]
       \/ /\ df_jobs = ReadCsv(1)
          /\ \E d \in CharDocs : service = [j \in {JobName(0)} |-> Fetched(d)]
    /\ pc = "retrieve"
    /\ main_tries = MainTries
    /\ inner_tries = RetrieveTries
    /\ attempts = 0
    /\ cur = 1
    /\ acc = <<>>
    /\ fetched = <<>>
    /\ counts = [incomplete_jobs |-> Null, empty_transcripts |-> Null]
    /\ df_responses = EmptyFrame
    /\ df_transcripts = EmptyFrame
    /\ df_summaries = EmptyFrame
    /\ final_df = EmptyFrame
    /\ start_tries = StartTries
    /\ calls = <<>>
    /\ df_started = EmptyFrame

\* An exception leaves the body of main_analytics_function: its retry runs the
\* body again while it has attempts left, and re-raises to the caller after.
MainFails ==
    IF main_tries = 1
    THEN /\ pc' = "raised"
         /\ main_tries' = 0
         /\ inner_tries' = 0
    ELSE /\ pc' = "retrieve"
         /\ main_tries' = main_tries - 1
         /\ inner_tries' = RetrieveTries

\* One attempt of analytics_job_response_output begins (line 43's apply starts).
RetrieveBody ==
    /\ pc = "retrieve"
    /\ attempts' = attempts + 1
    /\ cur' = 1
    /\ acc' = <<>>
    /\ pc' = "apply"
    /\ UNCHANGED <<df_jobs, service, main_tries, inner_tries, fetched, counts,
                   df_responses, df_transcripts, df_summaries, final_df,
                   start_tries, calls, df_started>>

\* apply calls job_func on the next row: the fetch, with its try/except.
JobFunc ==
    /\ pc = "apply"
    /\ cur <= Len(df_jobs.rows)
    /\ LET row == df_jobs.rows[cur]
           job_name == row.cells["job_name"][1]
       IN /\ acc' = Append(acc, job_func(row, service[job_name]))
          /\ fetched' = Append(fetched, job_name)
    /\ cur' = cur + 1
    /\ UNCHANGED <<df_jobs, service, pc, main_tries, inner_tries, attempts, counts,
                   df_responses, df_transcripts, df_summaries, final_df,
                   start_tries, calls, df_started>>

\* Lines 44-46: the count of null documents is logged and the frame returned.
RetrieveReturn ==
    /\ pc = "apply"
    /\ cur > Len(df_jobs.rows)
    /\ LET df_jobs_results == ApplyResult(df_jobs, acc)
       IN /\ "job_response_output" \in df_jobs_results.cols
          /\ counts' = [counts EXCEPT !.incomplete_jobs =
                          Some(NullCount(df_jobs_results, "job_response_output"))]
          /\ df_responses' = df_jobs_results
    /\ pc' = "transcripts"
    /\ UNCHANGED <<df_jobs, service, main_tries, inner_tries, attempts, cur, acc,
                   fetched, df_transcripts, df_summaries, final_df,
                   start_tries, calls, df_started>>

\* Line 44 raises KeyError (the frame has no job_response_output column): the
\* retry of analytics_job_response_output runs it again or, out of attempts,
\* re-raises into main_analytics_function.
RetrieveRaise ==
    /\ pc = "apply"
    /\ cur > Len(df_jobs.rows)
    /\ "job_response_output" \notin ApplyResult(df_jobs, acc).cols
    /\ IF inner_tries = 1
       THEN MainFails
       ELSE /\ pc' = "retrieve"
            /\ inner_tries' = inner_tries - 1
            /\ main_tries' = main_tries
    /\ UNCHANGED <<df_jobs, service, attempts, cur, acc, fetched, counts,
                   df_responses, df_transcripts, df_summaries, final_df,
                   start_tries, calls, df_started>>

\* ------------------------------------------------ analytics_call_transcript
\* dict_result.get("Content", "")
ContentOrEmpty(dict_result) ==
    IF "Content" \in DOMAIN dict_result THEN dict_result["Content"] ELSE ""
\* (a slip of the index: the roster read one position late)
LabelledLate(i, text) == speakers[((i + 1) % Len(speakers)) + 1] \o ": " \o text

\* f"{speakers[i % len(speakers)]}: {text}" for the i-th (0-based) text
Labelled(i, text) == speakers[(i % Len(speakers)) + 1] \o ": " \o text

\* Lines 64-70 for a truthy Transcript: the labelled items, or Raised when an
\* element has no .get (AttributeError).
LabelledItems(transcript_dict) ==
    IF \E j \in 1..Len(transcript_dict) : ~IsDict(transcript_dict[j])
    THEN Raised
    ELSE Some([j \in 1..Len(transcript_dict) |->
                 Labelled(j - 1, ContentOrEmpty(transcript_dict[j]))])

RECURSIVE TranscriptLoop(_, _, _, _)
\* The for loop of lines 61-71 over the documents of the column, from the k-th:
\* transcript is the local variable (<<>> while unbound), assigned the value the
\* column holds so far. The result is the column's final cell, or Raised.
TranscriptLoop(docs, k, transcript, assigned) ==
    IF k > Len(docs) THEN Some(assigned)
    ELSE IF IsNull(docs[k]) THEN Raised                \* None.get: AttributeError
    ELSE LET i == docs[k][1]
             transcript_dict == IF "Transcript" \in DOMAIN i THEN i["Transcript"] ELSE <<>>
             items == IF Len(transcript_dict) > 0
                      THEN LabelledItems(transcript_dict)
                      ELSE transcript
         IN IF Len(items) = 0 THEN Raised   \* an element raised, or transcript is unbound
            ELSE TranscriptLoop(docs, k + 1, items,
                                Some(JoinWith(", ", items[1])))
\* (the function without its try/except: the exception leaves it)
analytics_call_transcript_unguarded(row) ==
    LET docs == [j \in 1..Len(row.rows) |-> row.rows[j].cells["job_response_output"]]
        out == TranscriptLoop(docs, 1, <<>>, Null)
    IN [raised |-> Len(out) = 0,
        df |-> IF Len(out) = 0 THEN row ELSE SetColumn(row, "transcript", out[1])]

\* analytics_call_transcript(row) on a frame of rows: the frame with its
\* transcript column set, to None when the try block raised. The function has
\* no path that raises.
analytics_call_transcript(row) ==
    LET docs == [j \in 1..Len(row.rows) |-> row.rows[j].cells["job_response_output"]]
        out == TranscriptLoop(docs, 1, <<>>, Null)
    IN [raised |-> FALSE,
        df |-> IF Len(out) = 0 THEN SetColumn(row, "transcript", Null)
               ELSE SetColumn(row, "transcript", out[1])]

\* ----------------------------------------------- transcript_call_public_fnt
\* tmp.loc[[i], :]: the rows labelled i; KeyError (Raised) when there is none.
Loc(tmp, i) ==
    LET rows == SelectSeq2(tmp.rows, i)
    IN IF Len(rows) = 0 THEN Raised ELSE Some([cols |-> tmp.cols, rows |-> rows])

RECURSIVE TranscriptRows(_, _, _)
\* The loop of lines 88-94 from i on: a row whose selection or assembler raises
\* is skipped by the bare except.
TranscriptRows(tmp, i, results_df) ==
    IF i >= Len(tmp.rows) THEN results_df
    ELSE LET row_df == Loc(tmp, i)
             res == IF Len(row_df) = 0 THEN [raised |-> TRUE, df |-> EmptyFrame]
                    ELSE analytics_call_transcript(row_df[1])
         IN TranscriptRows(tmp, i + 1,
                           IF res.raised THEN results_df
                           ELSE ConcatRows(results_df, res.df))

\* Lines 87-95
transcript_call_public_fnt(tmp) == ResetIndex(TranscriptRows(tmp, 0, EmptyFrame))

\* Step 2 of main_analytics_function; line 96 raises KeyError when no row came
\* through (the frame has no transcript column).
TranscriptStep ==
    /\ pc = "transcripts"
    /\ LET results_df == transcript_call_public_fnt(df_responses)
       IN IF "transcript" \in results_df.cols
          THEN /\ df_transcripts' = results_df
               /\ counts' = [counts EXCEPT !.empty_transcripts =
                               Some(NullCount(results_df, "transcript"))]
               /\ pc' = "summaries"
               /\ UNCHANGED <<main_tries, inner_tries>>
          ELSE /\ MainFails
               /\ UNCHANGED <<df_transcripts, counts>>
    /\ UNCHANGED <<df_jobs, service, attempts, cur, acc, fetched, df_responses,
                   df_summaries, final_df, start_tries, calls, df_started>>

\* --------------------------------------------- analytics_call_summarization
\* dict_result.keys() restricted to the tag names, in the order the entry lists
\* them (the generated entries list their tags in the order of key_cols).
TagKeys(dict_result) == SelectSeq(key_cols, LAMBDA k : k \in DOMAIN dict_result)
\* (the transcript assembler's default applied here too)
TaggedContentDefault(dict_result) == Some(ContentOrEmpty(dict_result))

\* dict_result["Content"] for a tagged entry: KeyError when it has no Content.
TaggedContent(dict_result) == Lookup(Some(dict_result), "Content")

RECURSIVE ScanEntries(_, _, _, _)
\* Lines 117-122 over the entries of one Transcript, from the j-th.
ScanEntries(transcript, j, key_list, content_list) ==
    IF j > Len(transcript)
    THEN [raised |-> FALSE, key_list |-> key_list, content_list |-> content_list]
    ELSE IF ~IsDict(transcript[j])
    THEN [raised |-> TRUE, key_list |-> key_list, content_list |-> content_list]
    ELSE LET ks == TagKeys(transcript[j])
             content == TaggedContent(transcript[j])
         IN IF Len(ks) > 0 /\ Len(content) = 0
            THEN [raised |-> TRUE, key_list |-> key_list, content_list |-> content_list]
            ELSE ScanEntries(transcript, j + 1, key_list \o ks,
                             content_list \o [n \in 1..Len(ks) |-> content[1]])

RECURSIVE ScanDocs(_, _, _, _)
\* Lines 115-122 over the documents of the column, from the k-th.
ScanDocs(docs, k, key_list, content_list) ==
    IF k > Len(docs)
    THEN [raised |-> FALSE, key_list |-> key_list, content_list |-> content_list]
    ELSE LET transcript == Lookup(docs[k], "Transcript")
         IN IF Len(transcript) = 0
            THEN [raised |-> TRUE, key_list |-> key_list, content_list |-> content_list]
            ELSE LET r == ScanEntries(transcript[1], 1, key_list, content_list)
                 IN IF r.raised THEN r
                    ELSE ScanDocs(docs, k + 1, r.key_list, r.content_list)

RECURSIVE Spread(_, _, _, _)
\* Lines 125-126: data[key_list[i % len(key_list)]].append(val), from i on.
Spread(key_list, content_list, i, data) ==
    IF i >= Len(content_list) THEN data
    ELSE Spread(key_list, content_list, i + 1,
                [data EXCEPT ![key_list[(i % Len(key_list)) + 1]] =
                    Append(@, content_list[i + 1])])

\* pd.DataFrame(data) for a dict of lists: ValueError (Raised) unless all the
\* lists have one length; else one row per position.
FrameOfLists(data) ==
    IF \E a, b \in DOMAIN data : Len(data[a]) # Len(data[b]) THEN Raised
    ELSE LET n == IF DOMAIN data = {} THEN 0
                  ELSE Len(data[CHOOSE a \in DOMAIN data : TRUE])
         IN Some([cols |-> DOMAIN data,
                  rows |-> [j \in 1..n |->
                              [idx |-> j - 1,
                               cells |-> [c \in DOMAIN data |-> Some(data[c][j])]]]])

\* Lines 110-129: df_summary as the try block or its except branch leaves it.
SummaryFrame(row) ==
    LET docs == [j \in 1..Len(row.rows) |-> row.rows[j].cells["job_response_output"]]
        scan == ScanDocs(docs, 1, <<>>, <<>>)
        onExcept == [cols |-> Range(key_cols), rows |-> <<>>]
    IN IF scan.raised THEN onExcept
       ELSE IF Len(scan.key_list) = 0 THEN EmptyFrame
       ELSE LET data == Spread(scan.key_list, scan.content_list, 0,
                               [name \in Range(scan.key_list) |-> <<>>])
                frame == FrameOfLists(data)
            IN IF Len(frame) = 0 THEN onExcept ELSE frame[1]
\* (lines 130-132 left out)
WithoutKeyCols(df_summary) == df_summary

\* Lines 130-132: every column of key_cols the frame lacks is added, as None.
WithKeyCols(df_summary) ==
    [cols |-> df_summary.cols \cup Range(key_cols),
     rows |-> [j \in 1..Len(df_summary.rows) |->
                 [idx |-> df_summary.rows[j].idx,
                  cells |-> Widen(df_summary.rows[j].cells,
                                  df_summary.cols \cup Range(key_cols))]]]

\* Lines 133-134: row.index = [0], then pd.concat([row, df_summary], axis=1):
\* the rows are aligned on the union of the two indexes, NaN where a frame has
\* no row of that label.
ConcatColumns(row, df_summary) ==
    LET n == IF Len(df_summary.rows) > 1 THEN Len(df_summary.rows) ELSE 1
    IN [cols |-> row.cols \cup df_summary.cols,
        rows |-> [j \in 1..n |->
                    [idx |-> j - 1,
                     cells |-> [c \in row.cols \cup df_summary.cols |->
                                  IF c \in df_summary.cols
                                  THEN (IF j <= Len(df_summary.rows)
                                        THEN df_summary.rows[j].cells[c] ELSE Null)
                                  ELSE (IF j = 1 THEN row.rows[1].cells[c] ELSE Null)]]]]

\* analytics_call_summarization(row) for a frame of one row
analytics_call_summarization(row) ==
    ConcatColumns(row, WithKeyCols(SummaryFrame(row)))

\* -------------------------------------------------- summary_call_public_fnt
\* tmp.iloc[[i], :]: the row at position i (0-based)
ILoc(tmp, i) == [cols |-> tmp.cols, rows |-> <<tmp.rows[i + 1]>>]

RECURSIVE SummaryRows(_, _, _)
\* The loop of lines 149-153 from i on.
SummaryRows(tmp, i, results_df) ==
    IF i >= Len(tmp.rows) THEN results_df
    ELSE SummaryRows(tmp, i + 1,
                     ResetIndex(ConcatRows(results_df,
                                           analytics_call_summarization(ILoc(tmp, i)))))

summary_call_public_fnt(tmp) == SummaryRows(tmp, 0, EmptyFrame)

\* Step 3 of main_analytics_function
SummaryStep ==
    /\ pc = "summaries"
    /\ df_summaries' = summary_call_public_fnt(df_transcripts)
    /\ pc' = "characteristics"
    /\ UNCHANGED <<df_jobs, service, main_tries, inner_tries, attempts, cur, acc,
                   fetched, counts, df_responses, df_transcripts, final_df,
                   start_tries, calls, df_started>>

\* ---------------------------------------------- parse_call_analytics_output
RECURSIVE Path(_, _)
\* chain[k1][k2]...: the subscripts of keys applied in turn
Path(chain, keys) ==
    IF Len(keys) = 0 THEN chain ELSE Path(Lookup(chain, Head(keys)), Tail(keys))

\* [d["Score"] for d in lst]: Raised when an element has no Score
Scores(chain) ==
    IF Len(chain) = 0 THEN Raised
    ELSE IF \E j \in 1..Len(chain[1]) : "Score" \notin DOMAIN chain[1][j] THEN Raised
    ELSE Some([j \in 1..Len(chain[1]) |-> chain[1][j]["Score"]])

\* (value) / 1000
Div1000(chain) == IF Len(chain) = 0 THEN Raised ELSE Some(Seconds(chain[1]))

\* Each try block of lines 166-253: the value assigned to the field, <<>> (None)
\* when the block raised. doc is the row's job_response_output cell.
overall_sentiment_customer(doc) ==
    Path(doc, <<"ConversationCharacteristics", "Sentiment", "OverallSentiment", "CUSTOMER">>)
overall_sentiment_agent(doc) ==
    Path(doc, <<"ConversationCharacteristics", "Sentiment", "OverallSentiment", "AGENT">>)
sentiment_scores_agent_per_quarter(doc) ==
    Scores(Path(doc, <<"ConversationCharacteristics", "Sentiment", "SentimentByPeriod",
                       "QUARTER", "AGENT">>))
sentiment_scores_customer_per_quarter(doc) ==
    Scores(Path(doc, <<"ConversationCharacteristics", "Sentiment", "SentimentByPeriod",
                       "QUARTER", "CUSTOMER">>))
non_talk_time_sec(doc) ==
    Div1000(Path(doc, <<"ConversationCharacteristics", "NonTalkTime", "TotalTimeMillis">>))
interupted_time_agent_sec(doc) ==
    Div1000(Lookup(First(Path(doc, <<"ConversationCharacteristics", "Interruptions",
                                     "InterruptionsByInterrupter", "AGENT">>)),
                   "DurationMillis"))
interupted_time_customer_sec(doc) ==
    Div1000(Lookup(First(Path(doc, <<"ConversationCharacteristics", "Interruptions",
                                     "InterruptionsByInterrupter", "CUSTOMER">>)),
                   "DurationMillis"))
talk_speed_words_per_min_agent(doc) ==
    Path(doc, <<"ConversationCharacteristics", "TalkSpeed", "DetailsByParticipant",
                "AGENT", "AverageWordsPerMinute">>)
talk_speed_words_per_min_customer(doc) ==
    Path(doc, <<"ConversationCharacteristics", "TalkSpeed", "DetailsByParticipant",
                "CUSTOMER", "AverageWordsPerMinute">>)
talk_time_agent_sec(doc) ==
    Div1000(Path(doc, <<"ConversationCharacteristics", "TalkTime", "DetailsByParticipant",
                        "AGENT", "TotalTimeMillis">>))
talk_time_customer_sec(doc) ==
    Div1000(Path(doc, <<"ConversationCharacteristics", "TalkTime", "DetailsByParticipant",
                        "CUSTOMER", "TotalTimeMillis">>))
matched_categories(doc) ==
    Path(doc, <<"Categories", "MatchedCategories">>)

\* The try block of field f.
TryBlock(f, doc) ==
        CASE f = "overall_sentiment_customer" -> overall_sentiment_customer(doc)
          [] f = "overall_sentiment_agent" -> overall_sentiment_agent(doc)
          [] f = "sentiment_scores_agent_per_quarter" -> sentiment_scores_agent_per_quarter(doc)
          [] f = "sentiment_scores_customer_per_quarter" -> sentiment_scores_customer_per_quarter(doc)
          [] f = "non_talk_time_sec" -> non_talk_time_sec(doc)
          [] f = "interupted_time_agent_sec" -> interupted_time_agent_sec(doc)
          [] f = "interupted_time_customer_sec" -> interupted_time_customer_sec(doc)
          [] f = "talk_speed_words_per_min_agent" -> talk_speed_words_per_min_agent(doc)
          [] f = "talk_speed_words_per_min_customer" -> talk_speed_words_per_min_customer(doc)
          [] f = "talk_time_agent_sec" -> talk_time_agent_sec(doc)
          [] f = "talk_time_customer_sec" -> talk_time_customer_sec(doc)
          [] f = "matched_categories" -> matched_categories(doc)

\* (the first two try blocks merged into one: either KeyError voids both fields)
ParsedFieldsMergedTry(doc) ==
    LET both == /\ Len(overall_sentiment_customer(doc)) > 0
                /\ Len(overall_sentiment_agent(doc)) > 0
    IN [f \in Range(CharFields) |->
          IF f \in {"overall_sentiment_customer", "overall_sentiment_agent"} /\ ~both
          THEN Null ELSE TryBlock(f, doc)]

\* The 12 try blocks in turn: each reads only job_response_output and assigns
\* only its own field.
ParsedFields(doc) == [f \in Range(CharFields) |-> TryBlock(f, doc)]

\* parse_call_analytics_output(df) for one row (a Series)
parse_call_analytics_output(df) ==
    LET fields == ParsedFields(df.cells["job_response_output"])
    IN [idx |-> df.idx,
        cells |-> [c \in (DOMAIN df.cells) \cup Range(CharFields) |->
                     IF c \in Range(CharFields) THEN fields[c] ELSE df.cells[c]]]

\* Step 4 of main_analytics_function and its return
CharacteristicsStep ==
    /\ pc = "characteristics"
    /\ final_df' = ApplyResult(df_summaries,
                               [j \in 1..Len(df_summaries.rows) |->
                                  parse_call_analytics_output(df_summaries.rows[j])])
    /\ pc' = "done"
    /\ UNCHANGED <<df_jobs, service, main_tries, inner_tries, attempts, cur, acc,
                   fetched, counts, df_responses, df_transcripts, df_summaries,
                   start_tries, calls, df_started>>

Next ==
    \/ RetrieveBody
    \/ JobFunc
    \/ RetrieveReturn
    \/ RetrieveRaise
    \/ TranscriptStep
    \/ SummaryStep
    \/ CharacteristicsStep

Spec == Init /\ [][Next]_vars

\* ====================================================== start_analytics_jobs
RoleArn == "arn:aws:iam::000000000000:role/transcribe-access"

\* Lines 35-38
ChannelDefinitions ==
    <<[ChannelId |-> 0, ParticipantRole |-> "CUSTOMER"],
      [ChannelId |-> 1, ParticipantRole |-> "AGENT"]>>

\* The request of lines 31-39 for a row
StartRequest(row) ==
    [CallAnalyticsJobName |-> row.cells["job_name"][1],
     MediaFileUri |-> row.cells["job_url"][1],
     DataAccessRoleArn |-> RoleArn,
     ChannelDefinitions |-> ChannelDefinitions]
\* (job_func without its try/except)
StartJobFuncEndsUncaught(ack) == IF ack THEN "returned" ELSE "raised"

\* How job_func ends when the service acknowledged the request (ack) or raised:
\* the except of line 40 catches every Exception, so it returns the row.
StartJobFuncEnds(ack) == "returned"

InitStart ==
    /\ \E n \in 0..MaxStartJobs : df_jobs = ReadCsv(n)
    /\ service = <<>>
    /\ pc = "start_apply"
    /\ main_tries = MainTries
    /\ inner_tries = RetrieveTries
    /\ attempts = 0
    /\ cur = 1
    /\ acc = <<>>
    /\ fetched = <<>>
    /\ counts = [incomplete_jobs |-> Null, empty_transcripts |-> Null]
    /\ df_responses = EmptyFrame
    /\ df_transcripts = EmptyFrame
    /\ df_summaries = EmptyFrame
    /\ final_df = EmptyFrame
    /\ start_tries = StartTries
    /\ calls = <<>>
    /\ df_started = EmptyFrame

\* apply calls job_func on the next row: one start_call_analytics_job request,
\* which the service acknowledges or answers with an error. An exception that
\* left job_func would leave apply too, and the retry of start_analytics_jobs
\* would run the whole apply again.
StartJobFunc ==
    /\ pc = "start_apply"
    /\ cur <= Len(df_jobs.rows)
    /\ \E ack \in BOOLEAN :
         /\ calls' = Append(calls, [request |-> StartRequest(df_jobs.rows[cur]),
                                    ack |-> ack])
         /\ IF StartJobFuncEnds(ack) = "returned"
            THEN /\ acc' = Append(acc, df_jobs.rows[cur])
                 /\ cur' = cur + 1
                 /\ UNCHANGED <<pc, start_tries>>
            ELSE /\ acc' = <<>>
                 /\ cur' = 1
                 /\ start_tries' = start_tries - 1
                 /\ pc' = IF start_tries = 1 THEN "start_raised" ELSE "start_apply"
    /\ UNCHANGED <<df_jobs, service, main_tries, inner_tries, attempts, fetched,
                   counts, df_responses, df_transcripts, df_summaries, final_df,
                   df_started>>

\* Lines 44-45: apply is over and its frame is returned.
StartReturn ==
    /\ pc = "start_apply"
    /\ cur > Len(df_jobs.rows)
    /\ df_started' = ApplyResult(df_jobs, acc)
    /\ pc' = "start_done"
    /\ UNCHANGED <<df_jobs, service, main_tries, inner_tries, attempts, cur, acc,
                   fetched, counts, df_responses, df_transcripts, df_summaries,
                   final_df, start_tries, calls>>

NextStart ==
    \/ StartJobFunc
    \/ StartReturn

SpecStart == InitStart /\ [][NextStart]_vars

\* ==================================================================== claims
\* What the claims speak of, stated from the documents alone.

\* The rows of an output table belong to jobs by position: a row that carries a
\* job_name opens the block of its job, the rows up to the next such row follow.
Heads(df) == {p \in 1..Len(df.rows) : ~IsNull(df.rows[p].cells["job_name"])}
BlockOf(df, p) ==
    {q \in p..Len(df.rows) : \A h \in Heads(df) : h <= p \/ h > q}

\* The non-null cells of column col over the rows of the block opened at p.
RECURSIVE ColumnFrom(_, _, _, _)
ColumnFrom(df, q, last, col) ==
    IF q > last THEN <<>>
    ELSE df.rows[q].cells[col] \o ColumnFrom(df, q + 1, last, col)
ColumnOfJob(df, p, col) ==
    ColumnFrom(df, p, p + Cardinality(BlockOf(df, p)) - 1, col)

\* The document cell holds a dict with a Transcript list of dict entries.
HasUtterances(cell) ==
    /\ ~IsNull(cell)
    /\ "Transcript" \in DOMAIN cell[1]
    /\ \A j \in 1..Len(cell[1].Transcript) : IsDict(cell[1].Transcript[j])
Utterances(cell) == cell[1].Transcript

IsTag(k) == k \in {"IssuesDetected", "OutcomesDetected", "ActionItemsDetected"}
Tagged(e) == \E k \in DOMAIN e : IsTag(k)

\* ---------------------------------------------------------------------- C1
SpokenLine(i, e) ==
    (IF i % 2 = 0 THEN "Speaker 1" ELSE "Speaker 2") \o ": "
      \o (IF "Content" \in DOMAIN e THEN e["Content"] ELSE "")
RECURSIVE SpokenUpTo(_, _)
SpokenUpTo(entries, n) ==
    IF n = 1 THEN SpokenLine(0, entries[1])
    ELSE SpokenUpTo(entries, n - 1) \o ", " \o SpokenLine(n - 1, entries[n])

\* C1: a row whose document has a non-empty Transcript of N utterance entries
\* gets the transcript made of the N items roster[i mod 2] + ": " + Content
\* (empty when absent), in utterance order, joined by ", "; contents hi, hello,
\* bye give "Speaker 1: hi, Speaker 2: hello, Speaker 1: bye".
C1_TranscriptLabelling ==
    \A p \in 1..Len(df_transcripts.rows) :
      LET cells == df_transcripts.rows[p].cells
          doc == cells["job_response_output"]
      IN (HasUtterances(doc) /\ Len(Utterances(doc)) > 0) =>
           /\ cells["transcript"] =
                Some(SpokenUpTo(Utterances(doc), Len(Utterances(doc))))
           /\ (Utterances(doc) = <<[Content |-> "hi"], [Content |-> "hello"],
                                   [Content |-> "bye"]>>) =>
                cells["transcript"] =
                  Some("Speaker 1: hi, Speaker 2: hello, Speaker 1: bye")

C1_Witness ==
    /\ pc = "summaries"
    /\ \E p \in 1..Len(df_transcripts.rows) :
         LET cells == df_transcripts.rows[p].cells
         IN /\ HasUtterances(cells["job_response_output"])
            /\ Len(Utterances(cells["job_response_output"])) = 3
            /\ cells["transcript"] = Some("Speaker 1: hi, Speaker 2: , Speaker 1: bye")

\* ---------------------------------------------------------------------- C2
\* The Content values of the entries that carry tag, in scan order.
RECURSIVE ContentsTagged(_, _)
ContentsTagged(entries, tag) ==
    IF Len(entries) = 0 THEN <<>>
    ELSE (IF tag \in DOMAIN Head(entries) /\ "Content" \in DOMAIN Head(entries)
          THEN <<Head(entries)["Content"]>> ELSE <<>>)
         \o ContentsTagged(Tail(entries), tag)

\* C2: for every document whose tagged entries all have a Content, and each of
\* the three tags T, column T of the job holds exactly the Content values of the
\* entries that carry T, in scan order, however often the other tags occur.
C2_BucketsByTag ==
    pc \in {"characteristics", "done"} =>
      \A p \in Heads(df_summaries) :
        LET doc == df_summaries.rows[p].cells["job_response_output"]
        IN (/\ HasUtterances(doc)
            /\ \A j \in 1..Len(Utterances(doc)) :
                 Tagged(Utterances(doc)[j]) => "Content" \in DOMAIN Utterances(doc)[j]) =>
             \A tag \in {"IssuesDetected", "OutcomesDetected", "ActionItemsDetected"} :
               ColumnOfJob(df_summaries, p, tag) = ContentsTagged(Utterances(doc), tag)

\* ---------------------------------------------------------------------- C3
\* C3: summary_call_public_fnt returns as many rows as it was given, the jobs
\* in the same order, whatever the documents hold.
C3_SummariesKeepRows ==
    pc \in {"characteristics", "done"} =>
      /\ Len(df_summaries.rows) = Len(df_transcripts.rows)
      /\ \A p \in 1..Len(df_transcripts.rows) :
           p <= Len(df_summaries.rows) =>
             df_summaries.rows[p].cells["job_name"] =
               df_transcripts.rows[p].cells["job_name"]

\* ---------------------------------------------------------------------- C4
SummaryColumns == {"IssuesDetected", "OutcomesDetected", "ActionItemsDetected"}
CharacteristicColumns ==
    {"overall_sentiment_customer", "overall_sentiment_agent",
     "sentiment_scores_agent_per_quarter", "sentiment_scores_customer_per_quarter",
     "non_talk_time_sec", "interupted_time_agent_sec", "interupted_time_customer_sec",
     "talk_speed_words_per_min_agent", "talk_speed_words_per_min_customer",
     "talk_time_agent_sec", "talk_time_customer_sec"}
FixedColumns ==
    {"transcript"} \cup SummaryColumns \cup CharacteristicColumns \cup {"matched_categories"}

\* The document cell has no section of that name (also: no document at all).
LacksSection(cell, name) == IsNull(cell) \/ name \notin DOMAIN cell[1]

\* C4: after the run every output row has every column of the fixed set,
\* whatever sections its document holds: the fields of an absent section are
\* null (all of them for an absent or empty document), and no exception reaches
\* the caller of a run over a table that has jobs. (The transcript and summary
\* fields are read off the rows that carry a job: a further row of the same job,
\* which C3 is about, holds the job's later tagged contents and no document.)
C4_FixedColumnSet ==
    /\ pc = "raised" => Len(df_jobs.rows) = 0
    /\ pc = "done" =>
         /\ Len(final_df.rows) >= Len(df_jobs.rows)
         /\ FixedColumns \subseteq final_df.cols
         /\ \A p \in 1..Len(final_df.rows) :
              LET cells == final_df.rows[p].cells
                  doc == cells["job_response_output"]
              IN /\ FixedColumns \subseteq DOMAIN cells
                 /\ (p \in Heads(final_df) /\ LacksSection(doc, "Transcript")) =>
                      \A c \in {"transcript"} \cup SummaryColumns : IsNull(cells[c])
                 /\ LacksSection(doc, "ConversationCharacteristics") =>
                      \A c \in CharacteristicColumns : IsNull(cells[c])
                 /\ LacksSection(doc, "Categories") => IsNull(cells["matched_categories"])

C4_Witness ==
    /\ pc = "done"
    /\ Len(final_df.rows) = 2
    /\ final_df.rows[1].cells["job_response_output"] = Some(<<>>)
    /\ IsNull(final_df.rows[2].cells["job_response_output"])
    /\ \A p \in 1..2 : \A c \in FixedColumns : IsNull(final_df.rows[p].cells[c])

\* ---------------------------------------------------------------------- C5
\* The transcript assembler cannot traverse the document of the cell.
NoTranscriptData(cell) ==
    \/ LacksSection(cell, "Transcript")
    \/ Len(cell[1].Transcript) = 0
    \/ \E j \in 1..Len(cell[1].Transcript) : ~IsDict(cell[1].Transcript[j])

\* C5: transcript_call_public_fnt returns every row it was given, once and in
\* order; a row whose document is absent, has no Transcript, has no utterance
\* or cannot be traversed has a null transcript; the logged count is the number
\* of rows with a null transcript.
C5_TranscriptsKeepRows ==
    pc \in {"summaries", "characteristics", "done"} =>
      /\ Len(df_transcripts.rows) = Len(df_responses.rows)
      /\ \A p \in 1..Len(df_responses.rows) :
           p <= Len(df_transcripts.rows) =>
             LET cells == df_transcripts.rows[p].cells
             IN /\ \A c \in df_responses.cols :
                     cells[c] = df_responses.rows[p].cells[c]
                /\ NoTranscriptData(cells["job_response_output"]) =>
                     IsNull(cells["transcript"])
      /\ counts.empty_transcripts =
           Some(Cardinality({p \in 1..Len(df_transcripts.rows) :
                               IsNull(df_transcripts.rows[p].cells["transcript"])}))

C5_Witness ==
    /\ pc = "summaries"
    /\ Len(df_transcripts.rows) = 2
    /\ IsNull(df_transcripts.rows[1].cells["job_response_output"])
    /\ IsNull(df_transcripts.rows[1].cells["transcript"])
    /\ ~IsNull(df_transcripts.rows[2].cells["transcript"])
    /\ counts.empty_transcripts = Some(1)

\* ---------------------------------------------------------------------- C6
\* The path of each field in the document, and what is done with its end.
FieldPath(f) ==
    CASE f = "overall_sentiment_customer" ->
           <<"ConversationCharacteristics", "Sentiment", "OverallSentiment", "CUSTOMER">>
      [] f = "overall_sentiment_agent" ->
           <<"ConversationCharacteristics", "Sentiment", "OverallSentiment", "AGENT">>
      [] f = "sentiment_scores_agent_per_quarter" ->
           <<"ConversationCharacteristics", "Sentiment", "SentimentByPeriod", "QUARTER", "AGENT">>
      [] f = "sentiment_scores_customer_per_quarter" ->
           <<"ConversationCharacteristics", "Sentiment", "SentimentByPeriod", "QUARTER", "CUSTOMER">>
      [] f = "non_talk_time_sec" ->
           <<"ConversationCharacteristics", "NonTalkTime", "TotalTimeMillis">>
      [] f = "interupted_time_agent_sec" ->
           <<"ConversationCharacteristics", "Interruptions", "InterruptionsByInterrupter", "AGENT">>
      [] f = "interupted_time_customer_sec" ->
           <<"ConversationCharacteristics", "Interruptions", "InterruptionsByInterrupter", "CUSTOMER">>
      [] f = "talk_speed_words_per_min_agent" ->
           <<"ConversationCharacteristics", "TalkSpeed", "DetailsByParticipant", "AGENT",
             "AverageWordsPerMinute">>
      [] f = "talk_speed_words_per_min_customer" ->
           <<"ConversationCharacteristics", "TalkSpeed", "DetailsByParticipant", "CUSTOMER",
             "AverageWordsPerMinute">>
      [] f = "talk_time_agent_sec" ->
           <<"ConversationCharacteristics", "TalkTime", "DetailsByParticipant", "AGENT",
             "TotalTimeMillis">>
      [] f = "talk_time_customer_sec" ->
           <<"ConversationCharacteristics", "TalkTime", "DetailsByParticipant", "CUSTOMER",
             "TotalTimeMillis">>
      [] f = "matched_categories" -> <<"Categories", "MatchedCategories">>
FieldKind(f) ==
    CASE f \in {"sentiment_scores_agent_per_quarter",
                "sentiment_scores_customer_per_quarter"} -> "scores"
      [] f \in {"interupted_time_agent_sec", "interupted_time_customer_sec"} ->
           "first_duration"
      [] f \in {"non_talk_time_sec", "talk_time_agent_sec", "talk_time_customer_sec"} ->
           "millis"
      [] OTHER -> "raw"

RECURSIVE HasPath(_, _)
HasPath(d, keys) ==
    \/ Len(keys) = 0
    \/ /\ Head(keys) \in DOMAIN d
       /\ HasPath(d[Head(keys)], Tail(keys))
RECURSIVE At(_, _)
At(d, keys) == IF Len(keys) = 0 THEN d ELSE At(d[Head(keys)], Tail(keys))

\* The field's own path resolves in the document of the cell.
OwnPathResolves(f, cell) ==
    /\ ~IsNull(cell)
    /\ HasPath(cell[1], FieldPath(f))
    /\ FieldKind(f) = "scores" =>
         \A j \in 1..Len(At(cell[1], FieldPath(f))) :
           "Score" \in DOMAIN At(cell[1], FieldPath(f))[j]
    /\ FieldKind(f) = "first_duration" =>
         /\ Len(At(cell[1], FieldPath(f))) >= 1
         /\ "DurationMillis" \in DOMAIN At(cell[1], FieldPath(f))[1]

\* The value of a field whose path resolves.
ProjectedValue(f, cell) ==
    LET end == At(cell[1], FieldPath(f))
    IN CASE FieldKind(f) = "scores" -> [j \in 1..Len(end) |-> end[j].Score]
         [] FieldKind(f) = "first_duration" -> [num |-> end[1].DurationMillis, den |-> 1000]
         [] FieldKind(f) = "millis" -> [num |-> end, den |-> 1000]
         [] OTHER -> end

RECURSIVE OwnPart(_, _)
\* The document that holds nothing but what d holds along keys.
OwnPart(d, keys) ==
    IF Len(keys) = 0 THEN d
    ELSE IF Head(keys) \in DOMAIN d
         THEN [k \in {Head(keys)} |-> OwnPart(d[Head(keys)], Tail(keys))]
         ELSE <<>>

AllFields ==
    CharacteristicColumns \cup {"matched_categories"}

\* C6: in every row parse_call_analytics_output returns, each of the 12 fields
\* is present, is the projection of its own path when that path resolves (the
\* first interruption entry alone for the interruption fields) and null when it
\* does not, and is what it would be were the rest of the document absent.
C6_FieldsIndependent ==
    pc = "done" =>
      /\ Len(final_df.rows) = Len(df_summaries.rows)
      /\ \A p \in 1..Len(final_df.rows) :
           LET cells == final_df.rows[p].cells
               doc == cells["job_response_output"]
           IN \A f \in AllFields :
                /\ f \in DOMAIN cells
                /\ cells[f] = IF OwnPathResolves(f, doc)
                              THEN Some(ProjectedValue(f, doc)) ELSE Null
                /\ ~IsNull(doc) =>
                     cells[f] =
                       parse_call_analytics_output(
                         [idx |-> 0,
                          cells |-> [job_response_output |->
                                       Some(OwnPart(doc[1], FieldPath(f)))]]).cells[f]

C6_Witness ==
    /\ pc = "done"
    /\ \E p \in 1..Len(final_df.rows) :
         LET cells == final_df.rows[p].cells
         IN /\ cells["overall_sentiment_customer"] = Some("POSITIVE")
            /\ IsNull(cells["overall_sentiment_agent"])
            /\ cells["interupted_time_agent_sec"] = Some([num |-> 1200, den |-> 1000])
            /\ IsNull(cells["interupted_time_customer_sec"])
            /\ IsNull(cells["matched_categories"])
            /\ cells["talk_time_customer_sec"] = Some([num |-> 30250, den |-> 1000])

\* ---------------------------------------------------------------------- C7
\* What the result store answers for the job of row p of the input table.
Answer(p) == service[df_jobs.rows[p].cells["job_name"][1]]

\* C7: analytics_job_response_output returns one row per job in input order;
\* a job whose fetch or parsing failed has a null document, every other job the
\* document fetched for it; every job was fetched, the jobs after a failing one
\* included; the logged count is the number of rows with a null document.
C7_RetrievalKeepsGoing ==
    pc \in {"transcripts", "summaries", "characteristics", "done"} =>
      /\ Len(df_responses.rows) = Len(df_jobs.rows)
      /\ \A p \in 1..Len(df_jobs.rows) :
           p <= Len(df_responses.rows) =>
             /\ df_responses.rows[p].idx = df_jobs.rows[p].idx
             /\ \A c \in df_jobs.cols :
                  df_responses.rows[p].cells[c] = df_jobs.rows[p].cells[c]
             /\ df_responses.rows[p].cells["job_response_output"] =
                  IF Answer(p).ok THEN Answer(p).body ELSE Null
      /\ fetched = [p \in 1..Len(df_jobs.rows) |-> df_jobs.rows[p].cells["job_name"][1]]
      /\ counts.incomplete_jobs =
           Some(Cardinality({p \in 1..Len(df_responses.rows) :
                               IsNull(df_responses.rows[p].cells["job_response_output"])}))

C7_Witness ==
    /\ pc = "transcripts"
    /\ Len(df_jobs.rows) = 2
    /\ ~Answer(1).ok
    /\ IsNull(df_responses.rows[1].cells["job_response_output"])
    /\ df_responses.rows[2].cells["job_response_output"] = Some(FullDoc)
    /\ fetched = <<"job0", "job1">>
    /\ counts.incomplete_jobs = Some(1)

\* ---------------------------------------------------------------------- C8
\* C8: when the retrieval step fails on every attempt, it has been attempted 5
\* times in all when the failure reaches the caller of the run; a failing fetch
\* of one job or a failing extraction of one row starts no further attempt.
C8_FiveAttempts ==
    /\ pc = "raised" => attempts = 5
    /\ Len(df_jobs.rows) > 0 => attempts <= 1

TaggedWithoutContent(cell) ==
    \E j \in 1..Len(Utterances(cell)) :
      Tagged(Utterances(cell)[j]) /\ "Content" \notin DOMAIN Utterances(cell)[j]

\* C10: when a tagged utterance entry of a job's document has no Content, the
\* job's row is emitted, once, with its three summarization columns null, the
\* contents of its other tagged entries included.
C10_MissingContentEmptiesSummary ==
    pc \in {"characteristics", "done"} =>
      /\ Cardinality(Heads(df_summaries)) = Len(df_transcripts.rows)
      /\ \A p \in Heads(df_summaries) :
           LET cells == df_summaries.rows[p].cells
               doc == cells["job_response_output"]
           IN (HasUtterances(doc) /\ TaggedWithoutContent(doc)) =>
                /\ BlockOf(df_summaries, p) = {p}
                /\ \A c \in SummaryColumns : IsNull(cells[c])

C10_Witness ==
    /\ pc = "characteristics"
    /\ \E p \in Heads(df_summaries) :
         LET cells == df_summaries.rows[p].cells
             doc == cells["job_response_output"]
         IN /\ HasUtterances(doc)
            /\ Len(Utterances(doc)) = 2
            /\ Utterances(doc)[1] = Entry(1, TRUE, {"IssuesDetected"})
            /\ Utterances(doc)[2] = Entry(2, FALSE, {"OutcomesDetected"})
            /\ cells["transcript"] = Some("Speaker 1: hi, Speaker 2: ")
            /\ \A c \in SummaryColumns : IsNull(cells[c])

====
